---- MODULE Spec2Model ----
(***************************************************************************)
(* A model of qrz_lookup.py: the session cache (load_session,              *)
(* save_session, session_valid, new_session, get_session), the lookup      *)
(* (lookup_call), the exports (export_csv, export_json) and the main       *)
(* script that runs them once per invocation.                              *)
(*                                                                         *)
(* Spec runs one invocation at a time.  SpecConc runs two invocations at   *)
(* once, with load_session and save_session taken system call by system    *)
(* call.  SpecExport follows the export files over a sequence of export    *)
(* calls.                                                                  *)
(*                                                                         *)
(* Text is a sequence of one-character strings, so that str.strip() is a   *)
(* computation.  Python's None and ElementTree's "no such element" are two *)
(* one-element sequences that are not text.  Time is counted in ticks of   *)
(* TickSec seconds; an invocation takes no time on that scale, so the      *)
(* clock advances only while no invocation is running.                     *)
(***************************************************************************)
EXTENDS Integers, Sequences, FiniteSets, TLC

\* ------------------------------------------------------------- bounds
MaxLen == 2         \* longest text in the session file or in a Key element
MaxTicks == 3       \* the clock runs from 0 to MaxTicks
MaxErr == 2         \* Error elements in one probe response
MaxCalls == 2       \* calls of each export function

\* ---------------------------------------------------------- constants
SESSION_LIFETIME_MIN == 60
TickSec == 30 * 60  \* seconds in one tick of the clock

Procs == {1, 2}     \* process 1 is the invocation at the terminal

\* ---------------------------------------------------------------- text
Chars == {" ", "a", "b"}
Texts == UNION {[1..n -> Chars] : n \in 0..MaxLen}
None == <<"None">>
Absent == <<"no element">>
\* ElementTree gives an element without content the text None, never "".
ElemVals == {Absent, None} \cup (Texts \ {<<>>})

RECURSIVE lstrip(_)
lstrip(s) == IF s # <<>> /\ Head(s) = " " THEN lstrip(Tail(s)) ELSE s

RECURSIVE rstrip(_)
rstrip(s) ==
  IF s # <<>> /\ s[Len(s)] = " " THEN rstrip(SubSeq(s, 1, Len(s) - 1)) ELSE s

strip(s) == rstrip(lstrip(s))

\* `session is not None` for `session`.
Truthy_not_none(s) == s # None

\* Python truth of `session`: neither None nor the empty string.
Truthy(s) == s # None /\ s # <<>>

\* ------------------------------------------------------- session file
NoFile == [exists |-> FALSE, content |-> <<>>, mtime |-> 0]

\* (time.time() - os.path.getmtime(SESSION_FILE)) / 60, in sixtieths of a
\* minute: the division by 60 is exact on the right-hand side below.
age_seconds(file, t) == (t - file.mtime) * TickSec

\* load_session with the age test off by one: >= for >.
load_session_stale(file, t) ==
  IF ~file.exists THEN None
  ELSE IF age_seconds(file, t) >= SESSION_LIFETIME_MIN * 60 THEN None
  ELSE strip(file.content)

\* load_session returning f.read() without .strip().
load_session_unstripped(file, t) ==
  IF ~file.exists THEN None
  ELSE IF age_seconds(file, t) > SESSION_LIFETIME_MIN * 60 THEN None
  ELSE file.content

\* load_session, lines 20-29.
load_session(file, t) ==
  IF ~file.exists THEN None
  ELSE IF age_seconds(file, t) > SESSION_LIFETIME_MIN * 60 THEN None
  ELSE strip(file.content)

\* save_session opening the file with "a" for "w".
save_session_append(file, token, t) ==
  [exists |-> TRUE, content |-> file.content \o token, mtime |-> t]

\* save_session that leaves an existing file alone.
save_session_keep(file, token, t) ==
  IF file.exists THEN file ELSE [exists |-> TRUE, content |-> token, mtime |-> t]

\* open(SESSION_FILE, "w") leaving what the file holds.
file_truncate_keep(file, t) ==
  [exists |-> TRUE, content |-> file.content, mtime |-> t]

\* open(SESSION_FILE, "w"), line 36: the file is created or cut to nothing.
file_truncate(file, t) == [exists |-> TRUE, content |-> <<>>, mtime |-> t]

\* f.write(token) and the flush on leaving the with block, lines 36-37: the
\* token goes to offset 0 of the file as it is then, and what the file
\* holds beyond the token's length stays.
file_write(file, token, t) ==
  [exists |-> TRUE,
   content |-> token \o SubSeq(file.content, Len(token) + 1, Len(file.content)),
   mtime |-> t]

\* save_session, lines 35-37: the file is rewritten and its mtime is now.
save_session(file, token, t) ==
  file_write(file_truncate(file, t), token, t)

\* An export file that does not exist.
NoExport == [exists |-> FALSE, text |-> <<>>]

\* ---------------------------------------------------------- responses
NoResp == [kind |-> "none"]
NetFail == [kind |-> "netfail"]       \* requests.get raises
ParseFail == [kind |-> "parsefail"]   \* ET.fromstring raises

Marker == "Invalid session key"
\* The text of an Error element, as a sequence of phrases; None for <Error/>.
ErrTexts == {None, <<Marker>>, <<"Session Timeout">>}
ProbeDocs ==
  {[kind |-> "probe", errors |-> e] :
     e \in UNION {[1..n -> ErrTexts] : n \in 0..MaxErr}}
ProbeResponses == {NetFail, ParseFail} \cup ProbeDocs

\* "Invalid session key" in elem.text
HasMarker(text) == \E i \in 1..Len(text) : text[i] = Marker

\* The for loop of session_valid over the Error elements from index i on:
\* "False" (line 51), "True" (line 53) or "raise" (TypeError on a None text).
RECURSIVE scan_errors(_, _)
scan_errors(errors, i) ==
  IF i > Len(errors) THEN "True"
  ELSE IF errors[i] = None THEN "raise"
  ELSE IF HasMarker(errors[i]) THEN "False"
  ELSE scan_errors(errors, i + 1)

\* session_valid whose except clause returns True.
session_valid_trusting(resp) ==
  IF resp.kind # "probe" THEN TRUE
  ELSE scan_errors(resp.errors, 1) = "True"

\* session_valid, lines 43-55: any exception gives False.
session_valid(resp) ==
  IF resp.kind # "probe" THEN FALSE
  ELSE scan_errors(resp.errors, 1) = "True"

ExchangeDocs == {[kind |-> "exchange", key |-> k] : k \in ElemVals}
ExchangeResponses == {NetFail, ParseFail} \cup ExchangeDocs

\* new_session that saves an empty key where the Key element is missing.
new_session_no_exit(resp) ==
  IF resp.kind # "exchange" THEN [out |-> "raise", key |-> None]
  ELSE IF resp.key = Absent THEN [out |-> "return", key |-> <<>>]
  ELSE IF resp.key = None THEN [out |-> "raise", key |-> None]
  ELSE [out |-> "return", key |-> strip(resp.key)]

\* new_session from the response on: "return" with the key to save,
\* "exit" (sys.exit(1), line 73) or "raise" (an uncaught exception).
new_session(resp) ==
  IF resp.kind # "exchange" THEN [out |-> "raise", key |-> None]
  ELSE IF resp.key = Absent THEN [out |-> "exit", key |-> None]
  ELSE IF resp.key = None THEN [out |-> "raise", key |-> None]
  ELSE [out |-> "return", key |-> strip(resp.key)]

Tags == {"call", "fname", "name", "addr2", "state", "country"}
RecordKeys ==
  {"call", "fname", "name", "addr", "state", "country", "timestamp"}
NoResult == [k \in {"none"} |-> None]

\* A field element of a lookup response: missing, empty, or padded text.
FieldSamples == {Absent, None, <<" ", "a">>}
\* The call element and the other five elements vary independently.
FieldMaps ==
  {[t \in Tags |-> IF t = "call" THEN c ELSE o] :
     c \in FieldSamples, o \in FieldSamples}
LookupDocs ==
  {[kind |-> "lookup", error |-> e, fields |-> f] :
     e \in BOOLEAN, f \in FieldMaps}
LookupResponses == {NetFail, ParseFail} \cup LookupDocs

DigitChars == <<"0", "1", "2", "3", "4", "5", "6", "7", "8", "9">>
\* time.strftime: the clock as text.
strftime(t) == <<DigitChars[((t \div 10) % 10) + 1], DigitChars[(t % 10) + 1]>>

\* get(tag), lines 110-112; "raise" stands for the AttributeError.
get(fields, tag) ==
  IF fields[tag] = Absent THEN <<>>
  ELSE IF fields[tag] = None THEN <<"raise">>
  ELSE strip(fields[tag])

lookup_record(fields, t) ==
  [k \in RecordKeys |->
     IF k = "timestamp" THEN strftime(t)
     ELSE IF k = "addr" THEN get(fields, "addr2")
     ELSE get(fields, k)]

\* lookup_call without the test for an Error element.
lookup_call_lenient(resp, t) ==
  IF resp.kind # "lookup" THEN [out |-> "raise", rec |-> NoResult]
  ELSE IF \E g \in Tags : resp.fields[g] = None
    THEN [out |-> "raise", rec |-> NoResult]
  ELSE [out |-> "return", rec |-> lookup_record(resp.fields, t)]

\* lookup_call from the response on.
lookup_call(resp, t) ==
  IF resp.kind # "lookup" THEN [out |-> "raise", rec |-> NoResult]
  ELSE IF resp.error THEN [out |-> "exit", rec |-> NoResult]
  ELSE IF \E g \in Tags : resp.fields[g] = None
    THEN [out |-> "raise", rec |-> NoResult]
  ELSE [out |-> "return", rec |-> lookup_record(resp.fields, t)]

\* --------------------------------------------------------- export files
\* The fieldnames of the DictWriter, line 134, which is also the order of
\* the keys in the dict that lookup_call builds, lines 114-122.
FieldNames ==
  <<"call", "fname", "name", "addr", "state", "country", "timestamp">>

\* A key as the characters written to a file.
KeyText(k) ==
  CASE k = "call" -> <<"c", "a", "l", "l">>
    [] k = "fname" -> <<"f", "n", "a", "m", "e">>
    [] k = "name" -> <<"n", "a", "m", "e">>
    [] k = "addr" -> <<"a", "d", "d", "r">>
    [] k = "state" -> <<"s", "t", "a", "t", "e">>
    [] k = "country" -> <<"c", "o", "u", "n", "t", "r", "y">>
    [] k = "timestamp" -> <<"t", "i", "m", "e", "s", "t", "a", "m", "p">>

RECURSIVE Concat(_)
Concat(seqs) == IF seqs = <<>> THEN <<>> ELSE Head(seqs) \o Concat(Tail(seqs))

\* The texts joined with the separator between them.
RECURSIVE Join(_, _)
Join(seqs, sep) ==
  IF seqs = <<>> THEN <<>>
  ELSE IF Len(seqs) = 1 THEN seqs[1]
  ELSE seqs[1] \o sep \o Join(Tail(seqs), sep)

\* csv.writer, excel dialect with QUOTE_MINIMAL: a field holding the
\* delimiter, the quote character or a line break is quoted, and the quote
\* characters in it are doubled.
CsvSpecial == {",", "\"", "\r", "\n"}
csv_field(v) ==
  IF \E i \in 1..Len(v) : v[i] \in CsvSpecial
    THEN <<"\"">>
         \o Concat([i \in 1..Len(v) |->
                      IF v[i] = "\"" THEN <<"\"", "\"">> ELSE <<v[i]>>])
         \o <<"\"">>
    ELSE v
csv_row(fields) ==
  Join([i \in 1..Len(fields) |-> csv_field(fields[i])], <<",">>)
    \o <<"\r", "\n">>

\* writer.writeheader() and writer.writerow(record), lines 136-138.
writeheader == csv_row([i \in 1..Len(FieldNames) |-> KeyText(FieldNames[i])])
writerow(record) ==
  csv_row([i \in 1..Len(FieldNames) |-> record[FieldNames[i]]])

\* export_csv that writes the header on every call.
export_csv_headers(file, record) ==
  [exists |-> TRUE, text |-> file.text \o writeheader \o writerow(record)]

\* export_csv, lines 128-140: the file is opened for appending; the header
\* goes in only when the file did not exist before the open.
export_csv(file, record) ==
  LET file_exists == file.exists IN
  [exists |-> TRUE,
   text |-> file.text
            \o (IF ~file_exists THEN writeheader ELSE <<>>)
            \o writerow(record)]

\* csv.reader. The characters of a quoted field from position i on, after
\* the opening quote: a doubled quote stands for one, a single one ends
\* the quoted part.
RECURSIVE csv_quoted(_, _, _)
csv_quoted(text, i, acc) ==
  IF i > Len(text) THEN [val |-> acc, next |-> i]
  ELSE IF text[i] = "\"" THEN
    IF i < Len(text) /\ text[i + 1] = "\""
      THEN csv_quoted(text, i + 2, Append(acc, "\""))
      ELSE [val |-> acc, next |-> i + 1]
  ELSE csv_quoted(text, i + 1, Append(acc, text[i]))

\* The characters of a field up to the next delimiter or line break.
RECURSIVE csv_plain(_, _, _)
csv_plain(text, i, acc) ==
  IF i > Len(text) \/ text[i] \in {",", "\r", "\n"}
    THEN [val |-> acc, next |-> i]
  ELSE csv_plain(text, i + 1, Append(acc, text[i]))

csv_read_field(text, i) ==
  IF i <= Len(text) /\ text[i] = "\""
    THEN LET q == csv_quoted(text, i + 1, <<>>) IN csv_plain(text, q.next, q.val)
    ELSE csv_plain(text, i, <<>>)

\* The fields of a row from position i on; next is the position after the
\* line break that ends the row.
RECURSIVE csv_read_row(_, _, _)
csv_read_row(text, i, row) ==
  LET f == csv_read_field(text, i)
      fields == Append(row, f.val) IN
  IF f.next <= Len(text) /\ text[f.next] = ","
    THEN csv_read_row(text, f.next + 1, fields)
  ELSE IF f.next < Len(text) /\ text[f.next] = "\r" /\ text[f.next + 1] = "\n"
    THEN [val |-> fields, next |-> f.next + 2]
  ELSE [val |-> fields, next |-> f.next + 1]

RECURSIVE csv_read(_, _, _)
csv_read(text, i, rows) ==
  IF i > Len(text) THEN rows
  ELSE LET r == csv_read_row(text, i, <<>>) IN
       csv_read(text, r.next, Append(rows, r.val))
csv_rows(text) == csv_read(text, 1, <<>>)

\* A dict as its items in insertion order, each a pair <<key, value>>.
items(record) ==
  [i \in 1..Len(FieldNames) |-> <<KeyText(FieldNames[i]), record[FieldNames[i]]>>]

\* json.dumps of a str: the quote, the backslash and the control
\* characters are escaped.
json_char(c) ==
  IF c = "\"" THEN <<"\\", "\"">>
  ELSE IF c = "\\" THEN <<"\\", "\\">>
  ELSE IF c = "\n" THEN <<"\\", "n">>
  ELSE IF c = "\r" THEN <<"\\", "r">>
  ELSE IF c = "\t" THEN <<"\\", "t">>
  ELSE <<c>>
json_string(v) ==
  <<"\"">> \o Concat([i \in 1..Len(v) |-> json_char(v[i])]) \o <<"\"">>

Indent(n) == [i \in 1..n |-> " "]

\* json.dump(data, f, indent=2) for a list of dicts of strings.
json_object(pairs) ==
  IF pairs = <<>> THEN <<"{", "}">>
  ELSE <<"{", "\n">>
       \o Join([i \in 1..Len(pairs) |->
                  Indent(4) \o json_string(pairs[i][1]) \o <<":", " ">>
                    \o json_string(pairs[i][2])],
               <<",", "\n">>)
       \o <<"\n">> \o Indent(2) \o <<"}">>
json_dump(data) ==
  IF data = <<>> THEN <<"[", "]">>
  ELSE <<"[", "\n">>
       \o Join([i \in 1..Len(data) |-> Indent(2) \o json_object(data[i])],
               <<",", "\n">>)
       \o <<"\n", "]">>

\* json.load for the same shape of document; text of another shape does not
\* come from json_dump and is taken as undecodable. A result has ok = FALSE
\* where the decoder raises JSONDecodeError; next is the position after
\* the value.
JsonError == [ok |-> FALSE, val |-> <<>>, next |-> 0]
JsonSpace == {" ", "\n", "\r", "\t"}
RECURSIVE json_ws(_, _)
json_ws(text, i) ==
  IF i <= Len(text) /\ text[i] \in JsonSpace THEN json_ws(text, i + 1) ELSE i

Is(text, i, c) == i <= Len(text) /\ text[i] = c

\* The characters of a string from position i, after the opening quote.
RECURSIVE json_chars(_, _, _)
json_chars(text, i, acc) ==
  IF i > Len(text) THEN JsonError
  ELSE IF text[i] = "\"" THEN [ok |-> TRUE, val |-> acc, next |-> i + 1]
  ELSE IF text[i] = "\\" THEN
    IF i = Len(text) THEN JsonError
    ELSE LET e == text[i + 1] IN
      IF e \in {"\"", "\\", "/"} THEN json_chars(text, i + 2, Append(acc, e))
      ELSE IF e = "n" THEN json_chars(text, i + 2, Append(acc, "\n"))
      ELSE IF e = "r" THEN json_chars(text, i + 2, Append(acc, "\r"))
      ELSE IF e = "t" THEN json_chars(text, i + 2, Append(acc, "\t"))
      ELSE JsonError
  ELSE IF text[i] \in {"\n", "\r", "\t"} THEN JsonError
  ELSE json_chars(text, i + 1, Append(acc, text[i]))
json_parse_string(text, i) ==
  IF Is(text, i, "\"") THEN json_chars(text, i + 1, <<>>) ELSE JsonError

\* The members of an object from position i on, after "{" or ",".
RECURSIVE json_members(_, _, _)
json_members(text, i, acc) ==
  LET k == json_parse_string(text, json_ws(text, i)) IN
  IF ~k.ok THEN JsonError
  ELSE LET c == json_ws(text, k.next) IN
    IF ~Is(text, c, ":") THEN JsonError
    ELSE LET v == json_parse_string(text, json_ws(text, c + 1)) IN
      IF ~v.ok THEN JsonError
      ELSE LET e == json_ws(text, v.next)
               pairs == Append(acc, <<k.val, v.val>>) IN
        IF Is(text, e, ",") THEN json_members(text, e + 1, pairs)
        ELSE IF Is(text, e, "}") THEN [ok |-> TRUE, val |-> pairs, next |-> e + 1]
        ELSE JsonError
json_parse_object(text, i) ==
  IF ~Is(text, i, "{") THEN JsonError
  ELSE LET j == json_ws(text, i + 1) IN
    IF Is(text, j, "}") THEN [ok |-> TRUE, val |-> <<>>, next |-> j + 1]
    ELSE json_members(text, j, <<>>)

\* The elements of an array from position i on, after "[" or ",".
RECURSIVE json_elements(_, _, _)
json_elements(text, i, acc) ==
  LET o == json_parse_object(text, json_ws(text, i)) IN
  IF ~o.ok THEN JsonError
  ELSE LET e == json_ws(text, o.next)
           data == Append(acc, o.val) IN
    IF Is(text, e, ",") THEN json_elements(text, e + 1, data)
    ELSE IF Is(text, e, "]") THEN [ok |-> TRUE, val |-> data, next |-> e + 1]
    ELSE JsonError
json_parse_array(text, i) ==
  IF ~Is(text, i, "[") THEN JsonError
  ELSE LET j == json_ws(text, i + 1) IN
    IF Is(text, j, "]") THEN [ok |-> TRUE, val |-> <<>>, next |-> j + 1]
    ELSE json_elements(text, j, <<>>)
json_load(text) ==
  LET a == json_parse_array(text, json_ws(text, 1)) IN
  IF a.ok /\ json_ws(text, a.next) = Len(text) + 1 THEN a ELSE JsonError

\* export_json that starts from an empty list on every call.
export_json_fresh(file, record) ==
  [exists |-> TRUE, text |-> json_dump(<<items(record)>>)]

\* export_json, lines 146-161: the list is loaded, or is empty where the
\* file is absent or does not decode; the record is appended and the file
\* rewritten.
export_json(file, record) ==
  LET loaded == json_load(file.text)
      data == IF file.exists /\ loaded.ok THEN loaded.val ELSE <<>> IN
  [exists |-> TRUE, text |-> json_dump(Append(data, items(record)))]

\* ---------------------------------------------------------------- state
VARIABLES
  sessionFile,  \* ./.qrz_session: [exists, content, mtime]
  now,          \* time.time(), in ticks
  rejected,     \* the service rejected the token that the session file holds,
                \* in an invocation that has ended
  pc,           \* where each invocation stands
  args,         \* the export flags of the invocation, a subset of {csv, json}
  session,      \* get_session's local `session`
  valid,        \* what session_valid returned: "none", "True" or "False"
  token,        \* what get_session returned, main's `session`
  outcome,      \* which return of get_session was taken: none, cached, minted
  lastResp,     \* the response most recently received by the invocation
  reqs,         \* the requests the invocation has issued, in order
  prompted,     \* whether the invocation asked for the credentials
  writes,       \* save_session calls of the invocation
  startFile,    \* the session file as the invocation found it
  rejNow,       \* the same, in this invocation
  result,       \* the record lookup_call returned
  exports,      \* the export files the invocation has written
  lastWrite,    \* the token of the latest f.write to the session file
  overlaid,     \* the tokens written since the file was last truncated
  jsonFile,     \* lookup_log.json
  csvFile,      \* lookup_log.csv
  jsonCalls,    \* the records passed to export_json, in call order
  csvCalls      \* the records passed to export_csv, in call order

runVars ==
  <<pc, args, session, valid, token, outcome, lastResp, reqs, prompted,
    writes, startFile, rejNow, result, exports>>
fileLog == <<lastWrite, overlaid>>
exportVars == <<jsonFile, csvFile, jsonCalls, csvCalls>>
vars == <<sessionFile, now, rejected, runVars, fileLog, exportVars>>

Init ==
  /\ sessionFile \in
       {NoFile} \cup {[exists |-> TRUE, content |-> c, mtime |-> 0] : c \in Texts}
  /\ now = 0
  /\ rejected = FALSE
  /\ pc = [p \in Procs |-> "idle"]
  /\ args = [p \in Procs |-> {}]
  /\ session = [p \in Procs |-> None]
  /\ valid = [p \in Procs |-> "none"]
  /\ token = [p \in Procs |-> None]
  /\ outcome = [p \in Procs |-> "none"]
  /\ lastResp = [p \in Procs |-> NoResp]
  /\ reqs = [p \in Procs |-> <<>>]
  /\ prompted = [p \in Procs |-> FALSE]
  /\ writes = [p \in Procs |-> 0]
  /\ startFile = [p \in Procs |-> NoFile]
  /\ rejNow = [p \in Procs |-> FALSE]
  /\ result = [p \in Procs |-> NoResult]
  /\ exports = [p \in Procs |-> {}]
  /\ lastWrite = None
  /\ overlaid = {}
  /\ jsonFile = NoExport
  /\ csvFile = NoExport
  /\ jsonCalls = <<>>
  /\ csvCalls = <<>>

Request(kind, s) == [kind |-> kind, s |-> s]

\* ------------------------------------------------------------- actions
\* The clock advances between invocations.
Tick ==
  /\ \A p \in Procs : pc[p] = "idle"
  /\ now < MaxTicks
  /\ now' = now + 1
  /\ UNCHANGED <<sessionFile, rejected, runVars>>
  /\ UNCHANGED <<fileLog, exportVars>>

\* The script is started with one of the given sets of export flags:
\* argparse, lines 168-175.
InvokeWith(p, flagSets) ==
  /\ pc[p] = "idle"
  /\ \E a \in flagSets : args' = [args EXCEPT ![p] = a]
  /\ startFile' = [startFile EXCEPT ![p] = sessionFile]
  /\ pc' = [pc EXCEPT ![p] = "get_session"]
  /\ UNCHANGED <<sessionFile, now, rejected, session, valid, token, outcome,
                 lastResp, reqs, prompted, writes, rejNow, result, exports>>
  /\ UNCHANGED <<fileLog, exportVars>>

\* get_session line 85, and the first operand of line 86.
LoadSession(p) ==
  /\ pc[p] = "get_session"
  /\ session' = [session EXCEPT ![p] = load_session(sessionFile, now)]
  /\ pc' = [pc EXCEPT ![p] =
              IF Truthy(session'[p]) THEN "session_valid" ELSE "new_session"]
  /\ UNCHANGED <<sessionFile, now, rejected, args, valid, token, outcome,
                 lastResp, reqs, prompted, writes, startFile, rejNow, result,
                 exports>>
  /\ UNCHANGED <<fileLog, exportVars>>

\* The cached branch of get_session, saving the token again.
ReturnCachedTouching(p) ==
  /\ token' = [token EXCEPT ![p] = session[p]]
  /\ outcome' = [outcome EXCEPT ![p] = "cached"]
  /\ pc' = [pc EXCEPT ![p] = "lookup_call"]
  /\ sessionFile' = save_session(sessionFile, session[p], now)
  /\ writes' = [writes EXCEPT ![p] = @ + 1]
  /\ UNCHANGED prompted

\* get_session lines 87-88: the cached token is returned.
ReturnCached(p) ==
  /\ token' = [token EXCEPT ![p] = session[p]]
  /\ outcome' = [outcome EXCEPT ![p] = "cached"]
  /\ pc' = [pc EXCEPT ![p] = "lookup_call"]
  /\ UNCHANGED <<sessionFile, writes, prompted>>

\* session_valid(session), the second operand of get_session line 86,
\* answered by one of the given responses.
ProbeWith(p, responses) ==
  /\ pc[p] = "session_valid"
  /\ \E r \in responses :
       /\ lastResp' = [lastResp EXCEPT ![p] = r]
       /\ reqs' = [reqs EXCEPT ![p] = Append(@, Request("probe", session[p]))]
       /\ valid' = [valid EXCEPT ![p] = IF session_valid(r) THEN "True" ELSE "False"]
       /\ rejNow' = [rejNow EXCEPT ![p] =
                       @ \/ (r.kind = "probe" /\ scan_errors(r.errors, 1) = "False")]
       /\ IF session_valid(r)
            THEN ReturnCached(p)
            ELSE /\ pc' = [pc EXCEPT ![p] = "new_session"]
                 /\ UNCHANGED <<sessionFile, token, outcome, writes, prompted>>
  /\ UNCHANGED <<now, rejected, args, session, startFile, result, exports>>
  /\ UNCHANGED <<fileLog, exportVars>>

\* new_session, called from get_session line 91.
NewSession(p) ==
  /\ pc[p] = "new_session"
  /\ \E r \in ExchangeResponses :
       LET o == new_session(r) IN
       /\ lastResp' = [lastResp EXCEPT ![p] = r]
       /\ prompted' = [prompted EXCEPT ![p] = TRUE]
       /\ reqs' = [reqs EXCEPT ![p] = Append(@, Request("exchange", None))]
       /\ IF o.out = "return"
            THEN /\ sessionFile' = save_session(sessionFile, o.key, now)
                 /\ writes' = [writes EXCEPT ![p] = @ + 1]
                 /\ token' = [token EXCEPT ![p] = o.key]
                 /\ outcome' = [outcome EXCEPT ![p] = "minted"]
                 /\ pc' = [pc EXCEPT ![p] = "lookup_call"]
                 /\ rejected' = FALSE
                 /\ rejNow' = [rejNow EXCEPT ![p] = FALSE]
                 /\ lastWrite' = o.key
                 /\ overlaid' = {o.key}
            ELSE /\ pc' = [pc EXCEPT ![p] =
                             IF o.out = "exit" THEN "exit_new_session"
                             ELSE "raise_new_session"]
                 /\ UNCHANGED <<sessionFile, writes, token, outcome, rejected,
                                rejNow, fileLog>>
  /\ UNCHANGED <<now, args, session, valid, startFile, result, exports>>
  /\ UNCHANGED exportVars

\* lookup_call(session, callsign), main line 178, answered by one of the
\* given responses.
LookupWith(p, responses) ==
  /\ pc[p] = "lookup_call"
  /\ \E r \in responses :
       LET o == lookup_call(r, now) IN
       /\ lastResp' = [lastResp EXCEPT ![p] = r]
       /\ reqs' = [reqs EXCEPT ![p] = Append(@, Request("lookup", token[p]))]
       /\ rejNow' = [rejNow EXCEPT ![p] = @ \/ (r.kind = "lookup" /\ r.error)]
       /\ result' = [result EXCEPT ![p] = o.rec]
       /\ pc' = [pc EXCEPT ![p] =
                   IF o.out = "return" THEN "export_csv"
                   ELSE IF o.out = "exit" THEN "exit_lookup_call"
                   ELSE "raise_lookup_call"]
  /\ UNCHANGED <<sessionFile, now, rejected, args, session, valid, token,
                 outcome, prompted, writes, startFile, exports>>
  /\ UNCHANGED <<fileLog, exportVars>>

\* main lines 189-190.
ExportCsv(p) ==
  /\ pc[p] = "export_csv"
  /\ exports' = [exports EXCEPT ![p] =
                   IF "csv" \in args[p] THEN @ \cup {"csv"} ELSE @]
  /\ pc' = [pc EXCEPT ![p] = "export_json"]
  /\ UNCHANGED <<sessionFile, now, rejected, args, session, valid, token,
                 outcome, lastResp, reqs, prompted, writes, startFile, rejNow,
                 result>>
  /\ UNCHANGED <<fileLog, exportVars>>

\* main lines 192-193.
ExportJson(p) ==
  /\ pc[p] = "export_json"
  /\ exports' = [exports EXCEPT ![p] =
                   IF "json" \in args[p] THEN @ \cup {"json"} ELSE @]
  /\ pc' = [pc EXCEPT ![p] = "done"]
  /\ UNCHANGED <<sessionFile, now, rejected, args, session, valid, token,
                 outcome, lastResp, reqs, prompted, writes, startFile, rejNow,
                 result>>
  /\ UNCHANGED <<fileLog, exportVars>>

Terminal ==
  {"done", "exit_new_session", "raise_new_session", "exit_lookup_call",
   "raise_lookup_call"}

\* The process ends; nothing of it remains but the session file.
Finish(p) ==
  /\ pc[p] \in Terminal
  /\ rejected' = (rejected \/ rejNow[p])
  /\ pc' = [pc EXCEPT ![p] = "idle"]
  /\ args' = [args EXCEPT ![p] = {}]
  /\ session' = [session EXCEPT ![p] = None]
  /\ valid' = [valid EXCEPT ![p] = "none"]
  /\ token' = [token EXCEPT ![p] = None]
  /\ outcome' = [outcome EXCEPT ![p] = "none"]
  /\ lastResp' = [lastResp EXCEPT ![p] = NoResp]
  /\ reqs' = [reqs EXCEPT ![p] = <<>>]
  /\ prompted' = [prompted EXCEPT ![p] = FALSE]
  /\ writes' = [writes EXCEPT ![p] = 0]
  /\ startFile' = [startFile EXCEPT ![p] = NoFile]
  /\ rejNow' = [rejNow EXCEPT ![p] = FALSE]
  /\ result' = [result EXCEPT ![p] = NoResult]
  /\ exports' = [exports EXCEPT ![p] = {}]
  /\ UNCHANGED <<sessionFile, now>>
  /\ UNCHANGED <<fileLog, exportVars>>

Invoke(p) == InvokeWith(p, SUBSET {"csv", "json"})
Probe(p) == ProbeWith(p, ProbeResponses)
Lookup(p) == LookupWith(p, LookupResponses)

Run(p) ==
  \/ Invoke(p)
  \/ LoadSession(p)
  \/ Probe(p)
  \/ NewSession(p)
  \/ Lookup(p)
  \/ ExportCsv(p)
  \/ ExportJson(p)
  \/ Finish(p)

\* One invocation at a time, as the tool is used.
Next == Tick \/ Run(1)

Spec == Init /\ [][Next]_vars

\* ------------------------------------------------ concurrent invocations
\* Two invocations share the session file. The file is touched by separate
\* system calls: os.path.exists, os.path.getmtime, open and read in
\* load_session, and open (which truncates) and write in save_session. The
\* clock stands still while the invocations run.
ConcKeys == {<<"a">>, <<"b", "b">>}
ConcFlagSets == {{}}
ConcProbeResponses ==
  {NetFail, [kind |-> "probe", errors |-> <<>>],
   [kind |-> "probe", errors |-> <<<<Marker>>>>]}
ConcExchangeResponses ==
  {[kind |-> "exchange", key |-> k] : k \in {Absent} \cup ConcKeys}
ConcFields == [t \in Tags |-> <<" ", "a">>]
ConcLookupResponses ==
  {[kind |-> "lookup", error |-> e, fields |-> ConcFields] : e \in BOOLEAN}

\* load_session lines 21-22: os.path.exists.
LoadExists(p) ==
  /\ pc[p] = "get_session"
  /\ IF sessionFile.exists
       THEN /\ pc' = [pc EXCEPT ![p] = "load_getmtime"]
            /\ UNCHANGED session
       ELSE /\ session' = [session EXCEPT ![p] = None]
            /\ pc' = [pc EXCEPT ![p] = "new_session"]
  /\ UNCHANGED <<sessionFile, now, rejected, args, valid, token, outcome,
                 lastResp, reqs, prompted, writes, startFile, rejNow, result,
                 exports, fileLog, exportVars>>

\* load_session lines 24-26: os.path.getmtime and the age test.
LoadAge(p) ==
  /\ pc[p] = "load_getmtime"
  /\ IF age_seconds(sessionFile, now) > SESSION_LIFETIME_MIN * 60
       THEN /\ session' = [session EXCEPT ![p] = None]
            /\ pc' = [pc EXCEPT ![p] = "new_session"]
       ELSE /\ pc' = [pc EXCEPT ![p] = "load_read"]
            /\ UNCHANGED session
  /\ UNCHANGED <<sessionFile, now, rejected, args, valid, token, outcome,
                 lastResp, reqs, prompted, writes, startFile, rejNow, result,
                 exports, fileLog, exportVars>>

\* load_session lines 28-29, and the first operand of get_session line 86.
LoadRead(p) ==
  /\ pc[p] = "load_read"
  /\ session' = [session EXCEPT ![p] = strip(sessionFile.content)]
  /\ pc' = [pc EXCEPT ![p] =
              IF Truthy(session'[p]) THEN "session_valid" ELSE "new_session"]
  /\ UNCHANGED <<sessionFile, now, rejected, args, valid, token, outcome,
                 lastResp, reqs, prompted, writes, startFile, rejNow, result,
                 exports, fileLog, exportVars>>

\* new_session lines 62-75: the prompt, the exchange and the parse;
\* `token` holds session_key from here on.
Exchange(p) ==
  /\ pc[p] = "new_session"
  /\ \E r \in ConcExchangeResponses :
       LET o == new_session(r) IN
       /\ lastResp' = [lastResp EXCEPT ![p] = r]
       /\ prompted' = [prompted EXCEPT ![p] = TRUE]
       /\ reqs' = [reqs EXCEPT ![p] = Append(@, Request("exchange", None))]
       /\ IF o.out = "return"
            THEN /\ token' = [token EXCEPT ![p] = o.key]
                 /\ pc' = [pc EXCEPT ![p] = "save_open"]
            ELSE /\ pc' = [pc EXCEPT ![p] =
                             IF o.out = "exit" THEN "exit_new_session"
                             ELSE "raise_new_session"]
                 /\ UNCHANGED token
  /\ UNCHANGED <<sessionFile, now, rejected, args, session, valid, outcome,
                 writes, startFile, rejNow, result, exports, fileLog,
                 exportVars>>

\* save_session line 36: open(SESSION_FILE, "w").
SaveOpen(p) ==
  /\ pc[p] = "save_open"
  /\ sessionFile' = file_truncate(sessionFile, now)
  /\ overlaid' = {}
  /\ pc' = [pc EXCEPT ![p] = "save_write"]
  /\ UNCHANGED <<now, rejected, args, session, valid, token, outcome,
                 lastResp, reqs, prompted, writes, startFile, rejNow, result,
                 exports, lastWrite, exportVars>>

\* save_session line 37 and the return of new_session and get_session.
SaveWrite(p) ==
  /\ pc[p] = "save_write"
  /\ sessionFile' = file_write(sessionFile, token[p], now)
  /\ lastWrite' = token[p]
  /\ overlaid' = overlaid \cup {token[p]}
  /\ writes' = [writes EXCEPT ![p] = @ + 1]
  /\ outcome' = [outcome EXCEPT ![p] = "minted"]
  /\ pc' = [pc EXCEPT ![p] = "lookup_call"]
  /\ rejected' = FALSE
  /\ rejNow' = [rejNow EXCEPT ![p] = FALSE]
  /\ UNCHANGED <<now, args, session, valid, token, lastResp, reqs, prompted,
                 startFile, result, exports, exportVars>>

RunConc(p) ==
  \/ InvokeWith(p, ConcFlagSets)
  \/ LoadExists(p)
  \/ LoadAge(p)
  \/ LoadRead(p)
  \/ ProbeWith(p, ConcProbeResponses)
  \/ Exchange(p)
  \/ SaveOpen(p)
  \/ SaveWrite(p)
  \/ LookupWith(p, ConcLookupResponses)
  \/ ExportCsv(p)
  \/ ExportJson(p)
  \/ Finish(p)

\* The session file is absent or holds a key from an earlier exchange.
InitConc ==
  /\ Init
  /\ sessionFile.exists => sessionFile.content \in ConcKeys

NextConc == \E p \in Procs : RunConc(p)
SpecConc == InitConc /\ [][NextConc]_vars

\* ---------------------------------------------------------- the exports
\* Spec and SpecConc follow the session and keep, of the exports, only which
\* of them a run made. SpecExport follows what the export files hold over a
\* sequence of export_csv and export_json calls, starting with both absent.
\* The values of a record's fields: plain text, text with the characters
\* that the writers quote or escape, and the empty string.
CallTexts == {<<"a">>, <<"\"", ",">>}
OtherTexts == {<<>>, <<"b", "\n", "\\">>}
ExportRecords ==
  {[k \in RecordKeys |->
      IF k = "call" THEN c ELSE IF k = "timestamp" THEN strftime(0) ELSE o] :
     c \in CallTexts, o \in OtherTexts}

\* export_csv(result), main line 190.
CallExportCsv(record) ==
  /\ Len(csvCalls) < MaxCalls
  /\ csvFile' = export_csv(csvFile, record)
  /\ csvCalls' = Append(csvCalls, record)
  /\ UNCHANGED <<sessionFile, now, rejected, runVars, fileLog, jsonFile,
                 jsonCalls>>

\* export_json(result), main line 193.
CallExportJson(record) ==
  /\ Len(jsonCalls) < MaxCalls
  /\ jsonFile' = export_json(jsonFile, record)
  /\ jsonCalls' = Append(jsonCalls, record)
  /\ UNCHANGED <<sessionFile, now, rejected, runVars, fileLog, csvFile,
                 csvCalls>>

InitExport == Init /\ sessionFile = NoFile
NextExport ==
  \E record \in ExportRecords : CallExportCsv(record) \/ CallExportJson(record)
SpecExport == InitExport /\ [][NextExport]_vars

\* ------------------------------------------------------------ properties
Spaces(n) == [i \in 1..n |-> " "]
\* s is c without its leading and trailing whitespace.
IsStripOf(s, c) ==
  /\ s = <<>> \/ (s[1] # " " /\ s[Len(s)] # " ")
  /\ \E i \in 0..Len(c) : \E j \in 0..Len(c) : c = Spaces(i) \o s \o Spaces(j)

\* The file exists and its age is at most 60 minutes.
Fresh(file) ==
  file.exists /\ (now - file.mtime) * TickSec <= SESSION_LIFETIME_MIN * 60

Kinds(p) == {reqs[p][i].kind : i \in 1..Len(reqs[p])}
LookupTokens(p) ==
  {reqs[p][i].s : i \in {k \in 1..Len(reqs[p]) : reqs[p][k].kind = "lookup"}}

\* get_session has returned to main.
Returned ==
  {"lookup_call", "export_csv", "export_json", "done", "exit_lookup_call",
   "raise_lookup_call"}
\* The process ended inside new_session.
FatalInNewSession == {"exit_new_session", "raise_new_session"}

\* The probe is the invocation's latest request.
JustProbed(p) == Len(reqs[p]) = 1 /\ reqs[p][1].kind = "probe"

\* C1: load_session returns the whitespace-stripped content of the session
\* file if and only if the file exists and is at most 60 minutes old, and
\* None in every other case.
C1_LoadReturnsContentIffFresh ==
  \A p \in Procs :
    pc[p] \in {"session_valid", "new_session"} =>
      IF Fresh(sessionFile)
      THEN session[p] # None /\ IsStripOf(session[p], sessionFile.content)
      ELSE session[p] = None

\* A padded token exactly 60 minutes old has been loaded, stripped.
C1_Witness ==
  /\ pc[1] = "session_valid"
  /\ (now - sessionFile.mtime) * TickSec = SESSION_LIFETIME_MIN * 60
  /\ session[1] # sessionFile.content

\* C2 as stated: whenever the probe rejected the loaded token, get_session
\* ends with the file holding a newly exchanged token, which is the one
\* returned and used for the lookup.  (Runs
\* that an uncaught exception ends are left aside: the statement fails
\* without them.)
C2_RejectedAlwaysReplaced ==
  \A p \in Procs :
    (valid[p] = "False" /\ pc[p] \notin {"new_session", "raise_new_session"}) =>
      /\ outcome[p] = "minted"
      /\ sessionFile.exists /\ sessionFile.content = token[p]
      /\ LookupTokens(p) \subseteq {token[p]}

\* C2 amended: after a rejected probe an exchange is always attempted; if
\* get_session returns, the file holds the stripped Key text of the exchange
\* response, written in this invocation, and that token (which may equal
\* the rejected one) is returned and used by the lookup; if new_session
\* ends the process, the file still is as the invocation found it.
C2_RejectedReplacedOnReturn ==
  \A p \in Procs :
    valid[p] = "False" =>
      /\ pc[p] # "new_session" =>
           Len(reqs[p]) >= 2 /\ reqs[p][2].kind = "exchange" /\ prompted[p]
      /\ pc[p] \in Returned =>
           /\ outcome[p] = "minted" /\ writes[p] = 1
           /\ sessionFile = [exists |-> TRUE, content |-> token[p], mtime |-> now]
           /\ LookupTokens(p) \subseteq {token[p]}
      /\ pc[p] = "lookup_call" =>
           /\ lastResp[p].kind = "exchange"
           /\ IsStripOf(token[p], lastResp[p].key)
      /\ pc[p] \in FatalInNewSession =>
           /\ sessionFile = startFile[p] /\ writes[p] = 0
           /\ token[p] = None /\ LookupTokens(p) = {}

\* A rejected token was replaced by another and the lookup used the new one.
C2_Witness ==
  /\ valid[1] = "False"
  /\ pc[1] = "export_csv"
  /\ token[1] # session[1]
  /\ LookupTokens(1) = {token[1]}
  /\ sessionFile.content = token[1]

\* C3 as stated: no lookup is passed a token that the service rejected in
\* an earlier invocation, and no probe or lookup is passed a token older
\* than the 60-minute window.
C3_RejectedOrStaleNeverUsed ==
  \A p \in Procs :
    /\ "lookup" \in Kinds(p) => ~rejected
    /\ Kinds(p) \cap {"probe", "lookup"} # {} => Fresh(sessionFile)

\* C4: a cached token younger than 60 minutes that the probe accepts is
\* returned as it is by get_session, with no prompt, no exchange request
\* and no write of the session file.
C4_AcceptedCachedTokenReturned ==
  \A p \in Procs :
    valid[p] = "True" =>
      /\ pc[p] \in Returned /\ outcome[p] = "cached"
      /\ token[p] = session[p] /\ Truthy(token[p])
      /\ Fresh(startFile[p]) /\ IsStripOf(token[p], startFile[p].content)
      /\ ~prompted[p] /\ "exchange" \notin Kinds(p)
      /\ writes[p] = 0 /\ sessionFile = startFile[p]
      /\ LookupTokens(p) \subseteq {token[p]}

\* An accepted cached token, read from a file written some time ago, has
\* been returned and passed to the lookup.
C4_Witness ==
  /\ valid[1] = "True"
  /\ pc[1] = "export_csv"
  /\ sessionFile.mtime < now
  /\ LookupTokens(1) = {session[1]}

\* C5 as stated: an exchange response with a Key element always makes
\* new_session persist the token of the response (its Key text, surrounding
\* whitespace aside) and return the value it persisted.
C5_KeyAlwaysPersisted ==
  \A p \in Procs :
    (lastResp[p].kind = "exchange" /\ lastResp[p].key # Absent) =>
      /\ pc[p] = "lookup_call" /\ outcome[p] = "minted"
      /\ sessionFile.exists /\ sessionFile.content = token[p]
      /\ lastResp[p].key # None /\ IsStripOf(token[p], lastResp[p].key)

\* An Error element of the probe response marks an invalid session key.
MarksInvalid(resp) ==
  \E i \in 1..Len(resp.errors) :
    resp.errors[i] # None /\ HasMarker(resp.errors[i])
\* An Error element of the probe response has no text.
HasEmptyError(resp) == \E i \in 1..Len(resp.errors) : resp.errors[i] = None

\* C6 as stated: session_valid returns false on a network or parse failure
\* and on an Error element marking an invalid session key, true for every
\* other response; a false result leads to new_session.
C6_FalseOnlyOnFailureOrMarker ==
  \A p \in Procs :
    JustProbed(p) =>
      /\ valid[p] \in {"True", "False"}
      /\ valid[p] = "False" <=>
           \/ lastResp[p].kind \in {"netfail", "parsefail"}
           \/ lastResp[p].kind = "probe" /\ MarksInvalid(lastResp[p])
      /\ valid[p] = "False" => pc[p] = "new_session"

\* C6 amended: session_valid never raises; it returns false on a network
\* or parse failure, on an Error element marking an invalid session key and
\* on an Error element without text, and true for every other response; a
\* false result leads get_session to new_session, never to termination.
C6_FalseOnFailureMarkerOrEmptyError ==
  \A p \in Procs :
    /\ JustProbed(p) =>
         /\ valid[p] \in {"True", "False"}
         /\ valid[p] = "False" <=>
              \/ lastResp[p].kind \in {"netfail", "parsefail"}
              \/ /\ lastResp[p].kind = "probe"
                 /\ MarksInvalid(lastResp[p]) \/ HasEmptyError(lastResp[p])
         /\ pc[p] = IF valid[p] = "True" THEN "lookup_call" ELSE "new_session"
    /\ (valid[p] = "False" /\ ~JustProbed(p)) =>
         Len(reqs[p]) >= 2 /\ reqs[p][2].kind = "exchange"

\* A probe response whose second Error element has no text, and none of
\* whose Error elements marks an invalid session, was taken as invalid.
C6_Witness ==
  /\ JustProbed(1)
  /\ lastResp[1] = [kind |-> "probe", errors |-> <<<<"Session Timeout">>, None>>]
  /\ valid[1] = "False"
  /\ pc[1] = "new_session"

\* C7: a lookup response with an Error element ends the run in
\* lookup_call: the lookup is the run's last request, there is no
\* re-authentication after it, no record and no export file.
C7_LookupErrorEndsRun ==
  \A p \in Procs :
    (lastResp[p].kind = "lookup" /\ lastResp[p].error) =>
      /\ pc[p] = "exit_lookup_call"
      /\ reqs[p][Len(reqs[p])].kind = "lookup"
      /\ Cardinality({i \in 1..Len(reqs[p]) : reqs[p][i].kind = "lookup"}) = 1
      /\ result[p] = NoResult
      /\ exports[p] = {}
      /\ writes[p] = IF outcome[p] = "minted" THEN 1 ELSE 0

\* A run asked to export both files ended on a lookup Error with a cached
\* token.
C7_Witness ==
  /\ pc[1] = "exit_lookup_call"
  /\ args[1] = {"csv", "json"}
  /\ outcome[1] = "cached"
  /\ lastResp[1].fields["call"] = <<" ", "a">>

\* C8 as stated: a lookup response without an Error element always gives a
\* record with the seven keys, the empty string for every missing element.
C8_NoErrorAlwaysRecord ==
  \A p \in Procs :
    (lastResp[p].kind = "lookup" /\ ~lastResp[p].error) =>
      /\ pc[p] \in {"export_csv", "export_json", "done"}
      /\ DOMAIN result[p] = RecordKeys
      /\ \A g \in Tags :
           lastResp[p].fields[g] = Absent =>
             result[p][IF g = "addr2" THEN "addr" ELSE g] = <<>>

\* C9: an exchange response without a Key element ends the process in
\* new_session: no token, the session file as it was, no lookup.
C9_NoKeyIsFatal ==
  \A p \in Procs :
    (lastResp[p].kind = "exchange" /\ lastResp[p].key = Absent) =>
      /\ pc[p] = "exit_new_session"
      /\ token[p] = None /\ outcome[p] = "none"
      /\ sessionFile = startFile[p] /\ writes[p] = 0
      /\ "lookup" \notin Kinds(p)
      /\ result[p] = NoResult /\ exports[p] = {}

\* The exchange that followed a rejected probe returned no Key; the file
\* still holds the rejected token.
C9_Witness ==
  /\ pc[1] = "exit_new_session"
  /\ valid[1] = "False"
  /\ sessionFile.exists /\ strip(sessionFile.content) = session[1]

\* What holds when get_session returned the cached token.
CachedReused(p) ==
  /\ outcome[p] = "cached" /\ valid[p] = "True"
  /\ token[p] = session[p]
  /\ "exchange" \notin Kinds(p)
  /\ writes[p] = 0 /\ sessionFile = startFile[p]
\* What holds when get_session returned a new token.
NewMinted(p) ==
  /\ outcome[p] = "minted" /\ valid[p] # "True"
  /\ "exchange" \in Kinds(p)
  /\ writes[p] = 1
  /\ sessionFile = [exists |-> TRUE, content |-> token[p], mtime |-> now]

\* C10 as stated: every call of get_session ends with the cached token
\* reused or with a new token minted and persisted.  (Calls that an
\* uncaught exception ends are left aside: the statement fails without
\* them.)
C10_TwoOutcomes ==
  \A p \in Procs :
    pc[p] \in Returned \cup {"exit_new_session"} =>
      CachedReused(p) \/ NewMinted(p)

\* C10 amended: get_session returns in exactly two ways, the cached token
\* reused or a new token minted and persisted; a call may also not return,
\* when new_session ends the process (no Key element, a network or parse
\* failure, a Key element without text), and then the session file is as
\* the invocation found it and no token was produced.
C10_TwoReturnsOrFatal ==
  \A p \in Procs :
    /\ pc[p] \in Returned => (CachedReused(p) \/ NewMinted(p))
    /\ pc[p] \in FatalInNewSession =>
         /\ outcome[p] = "none" /\ token[p] = None
         /\ reqs[p][Len(reqs[p])].kind = "exchange"
         /\ lastResp[p].kind \in {"netfail", "parsefail"}
              \/ lastResp[p].key \in {Absent, None}
         /\ writes[p] = 0 /\ sessionFile = startFile[p]
    /\ pc[p] \in {"session_valid", "new_session"} => outcome[p] = "none"

\* A stale file was replaced by a new token without any probe.
C10_Witness ==
  /\ pc[1] = "lookup_call"
  /\ outcome[1] = "minted"
  /\ valid[1] = "none"
  /\ startFile[1].exists /\ startFile[1].content # sessionFile.content

\* The positions of the requests of one kind in the invocation's log.
At(p, kind) == {i \in 1..Len(reqs[p]) : reqs[p][i].kind = kind}
KindRank(kind) ==
  IF kind = "probe" THEN 1 ELSE IF kind = "exchange" THEN 2 ELSE 3

\* C11: an invocation issues at most one probe, one exchange and one
\* lookup, in that order; the probe only for a non-empty cached token, the
\* exchange only with no usable cached token or after a probe that returned
\* false, the lookup only with the token get_session returned, and exports
\* only after the lookup returned a record.
C11_NoRetries ==
  \A p \in Procs :
    /\ \A k \in {"probe", "exchange", "lookup"} : Cardinality(At(p, k)) <= 1
    /\ \A i \in 1..Len(reqs[p]) : \A j \in 1..Len(reqs[p]) :
         i < j => KindRank(reqs[p][i].kind) < KindRank(reqs[p][j].kind)
    /\ \A i \in At(p, "probe") :
         /\ session[p] \notin {None, <<>>}
         /\ reqs[p][i].s = session[p]
         /\ valid[p] \in {"True", "False"}
    /\ At(p, "exchange") # {} =>
         \/ session[p] \in {None, <<>>} /\ At(p, "probe") = {}
         \/ valid[p] = "False"
    /\ \A i \in At(p, "lookup") :
         /\ outcome[p] \in {"cached", "minted"}
         /\ token[p] # None /\ reqs[p][i].s = token[p]
         /\ outcome[p] = "cached" <=> At(p, "exchange") = {}
    /\ valid[p] = "True" => At(p, "exchange") = {}
    /\ (exports[p] # {} \/ pc[p] \in {"export_csv", "export_json", "done"}) =>
         /\ At(p, "lookup") # {}
         /\ DOMAIN result[p] = RecordKeys
         /\ exports[p] \subseteq args[p]

\* A run issued a probe, an exchange and a lookup and wrote both exports.
C11_Witness ==
  /\ pc[1] = "done"
  /\ Len(reqs[1]) = 3
  /\ exports[1] = {"csv", "json"}

\* The step is new_session saving the key of a successful exchange.
SavedByExchange(p) ==
  /\ pc[p] = "new_session" /\ pc'[p] = "lookup_call"
  /\ outcome'[p] = "minted"
  /\ Len(reqs'[p]) = Len(reqs[p]) + 1
  /\ reqs'[p][Len(reqs'[p])].kind = "exchange"
  /\ sessionFile' = [exists |-> TRUE, content |-> token'[p], mtime |-> now]

\* C13: only a successful exchange in new_session changes the session
\* file's content or modification time, and nothing deletes the file; so a
\* token that get_session returns from the cache was persisted at most 60
\* minutes before, in a file the run has not touched.
C13_OnlyExchangeWrites ==
  [][/\ sessionFile' # sessionFile => \E p \in Procs : SavedByExchange(p)
     /\ sessionFile.exists => sessionFile'.exists
     /\ \A p \in Procs :
          outcome'[p] = "cached" =>
            /\ sessionFile' = startFile'[p]
            /\ writes'[p] = 0
            /\ (now' - startFile'[p].mtime) * TickSec
                 <= SESSION_LIFETIME_MIN * 60]_vars

\* A token minted by an earlier run is reused exactly 60 minutes after it
\* was persisted, and the file still carries the time of the exchange.
C13_Witness ==
  /\ pc[1] = "done" /\ outcome[1] = "cached"
  /\ sessionFile.mtime > 0
  /\ (now - sessionFile.mtime) * TickSec = SESSION_LIFETIME_MIN * 60
  /\ sessionFile = startFile[1]

\* The session file holds no usable token: it is fresh and its content is
\* empty or whitespace only.
BlankFresh(file) ==
  /\ file.exists /\ strip(file.content) = <<>>
  /\ (now - file.mtime) * TickSec <= SESSION_LIFETIME_MIN * 60

\* The tokens sent to the service as the session key `s`.
SentKeys(p) ==
  {reqs[p][i].s : i \in At(p, "probe") \cup At(p, "lookup")}

AllFinished == \A p \in Procs : pc[p] \in {"idle"} \cup Terminal

\* A lookup of p is in flight or done, with a token that p read from the
\* file and had accepted by its own probe, or minted in its own exchange.
OwnToken(p) ==
  \A i \in At(p, "lookup") :
    /\ reqs[p][i].s = token[p]
    /\ \/ /\ outcome[p] = "cached" /\ writes[p] = 0
          /\ token[p] = session[p] /\ valid[p] = "True"
          /\ \E j \in At(p, "probe") : reqs[p][j].s = session[p]
          /\ At(p, "exchange") = {}
       \/ /\ outcome[p] = "minted" /\ writes[p] = 1
          /\ At(p, "exchange") # {}

\* p's step sets `session` to what it reads from the file, and hands to
\* the lookup the key of p's own exchange response.
OwnStep(p) ==
  /\ (session'[p] # session[p] /\ session'[p] # None) =>
       session'[p] = strip(sessionFile.content)
  /\ (pc[p] = "new_session" /\ pc'[p] = "save_open") =>
       /\ lastResp'[p].kind = "exchange"
       /\ token'[p] = strip(lastResp'[p].key)
  /\ (pc[p] \in {"save_open", "save_write"}) => token'[p] = token[p]

\* C12 as stated: each lookup uses the invocation's own probed or minted
\* token, and once all invocations have finished the session file holds in
\* full the token of the last write, never a mixture or an empty file.
C12_LastWriterWins ==
  /\ \A p \in Procs : OwnToken(p)
  /\ (AllFinished /\ lastWrite # None) =>
       /\ sessionFile.exists
       /\ sessionFile.content = lastWrite
       /\ sessionFile.content # <<>>

\* C12: each lookup uses the invocation's own probed or minted token; once
\* all invocations have finished the session file begins with the token of
\* the last write, and holds it in full unless a longer token was written
\* between the last truncation and the last write, whose tail then follows.
C12_LastWriterOverlays ==
  [][/\ \A p \in Procs : OwnToken(p)' /\ OwnStep(p)
     /\ (AllFinished' /\ lastWrite' # None) =>
          LET c == sessionFile'.content
              n == Len(lastWrite') IN
          /\ sessionFile'.exists
          /\ Len(c) >= n /\ SubSeq(c, 1, n) = lastWrite'
          /\ c # lastWrite' =>
               \E t \in overlaid' :
                 /\ Len(t) > n
                 /\ c = lastWrite' \o SubSeq(t, n + 1, Len(t))
          /\ c = <<>> => lastWrite' = <<>>]_vars

\* Both invocations minted a token and wrote it after the last truncation,
\* the file holds the last one in full, and both have sent their lookups.
C12_Witness ==
  /\ pc[1] = "done" /\ pc[2] = "done"
  /\ outcome[1] = "minted" /\ outcome[2] = "minted"
  /\ token[1] # token[2]
  /\ overlaid = {token[1], token[2]}
  /\ sessionFile.content = lastWrite
  /\ At(1, "lookup") # {} /\ At(2, "lookup") # {}

\* C15: after export_json calls from an absent file, the file decodes to
\* the records passed, one per call and in call order; so a later call
\* loses or reorders none of the earlier records.
C15_JsonHoldsRecordsInOrder ==
  IF jsonCalls = <<>> THEN ~jsonFile.exists
  ELSE /\ jsonFile.exists
       /\ json_load(jsonFile.text).ok
       /\ json_load(jsonFile.text).val
            = [i \in 1..Len(jsonCalls) |-> items(jsonCalls[i])]

\* export_json has appended to a file that held a record with characters
\* to escape.
C15_Witness ==
  /\ Len(jsonCalls) = 2
  /\ jsonCalls[1] # jsonCalls[2]
  /\ jsonCalls[1]["call"] = <<"\"", ",">>
  /\ jsonCalls[1]["name"] = <<"b", "\n", "\\">>

\* The rows a reader finds in the CSV file after the calls so far.
ExpectedRows ==
  <<[i \in 1..Len(FieldNames) |-> KeyText(FieldNames[i])]>>
    \o [n \in 1..Len(csvCalls) |->
          [i \in 1..Len(FieldNames) |-> csvCalls[n][FieldNames[i]]]]

\* C16: after n >= 1 export_csv calls from an absent file, the file reads
\* as the header row followed by the n records in call order; a call only
\* appends, so no row is rewritten and the header is not written again.
C16_CsvHeaderThenRowsInOrder ==
  [][/\ csvCalls' # <<>> =>
          /\ csvFile'.exists
          /\ csv_rows(csvFile'.text) = ExpectedRows'
          /\ SubSeq(csvFile'.text, 1, Len(writeheader)) = writeheader
     /\ csvFile.exists =>
          /\ Len(csvFile'.text) >= Len(csvFile.text)
          /\ SubSeq(csvFile'.text, 1, Len(csvFile.text)) = csvFile.text
          /\ csvFile' # csvFile =>
               Len(csv_rows(csvFile'.text)) = Len(csv_rows(csvFile.text)) + 1]_vars

\* export_csv has appended to an existing file, and a record holds a
\* delimiter, a quote and a line break.
C16_Witness ==
  /\ Len(csvCalls) = 2
  /\ csvCalls[2]["call"] = <<"\"", ",">>
  /\ csvCalls[2]["name"] = <<"b", "\n", "\\">>
  /\ Len(csv_rows(csvFile.text)) = 3

====
